---- MODULE Spec2Model ----
(***************************************************************************)
(* Model of clumon/src/cim-provider/ClusterProviderMain.cpp: the exported  *)
(* factory PegasusCreateProvider(providerName) of the Red Hat cluster CIM  *)
(* provider module, together with the host broker that calls it (possibly  *)
(* from several threads) and later deletes the providers it was handed.    *)
(*                                                                         *)
(* Strings are sequences of character codes.  The heap is a finite set of  *)
(* addresses; each cell is free, raw (storage obtained by operator new,    *)
(* constructor not yet finished) or live (a constructed ClusterProvider).  *)
(*                                                                         *)
(* A thread's step is one run of statements that touch nothing but the     *)
(* thread's own locals, up to and including its next access to the heap:   *)
(* entry and the test of line 34; operator new of line 36; the constructor *)
(* and the return of line 36; the return of line 39.                       *)
(***************************************************************************)
EXTENDS Integers, Sequences, FiniteSets

\* ------------------------------------------------------------------ bounds

NumThreads == 2      \* host threads that may be inside the factory at once
MaxAddr    == 2      \* heap addresses available to operator new
MaxCalls   == 3      \* calls the host makes in one run

Threads == 1..NumThreads
Addrs   == 1..MaxAddr

\* ----------------------------------------------------------------- strings

\* "RedHatClusterProvider", the literal of line 34
Literal ==
  << 82, 101, 100, 72, 97, 116, 67, 108, 117, 115, 116, 101, 114,
     80, 114, 111, 118, 105, 100, 101, 114 >>

IsUpper(c) == c >= 65 /\ c <= 90
IsLower(c) == c >= 97 /\ c <= 122

\* tolower() of the C library in the "C" locale
ToLower(c) == IF IsUpper(c) THEN c + 32 ELSE c

\* a mutant of equalNoCase: case-sensitive comparison (String::equal)
equalNoCase_exact(str1, str2) ==
  /\ Len(str1) = Len(str2)
  /\ \A i \in 1..Len(str1) : str1[i] = str2[i]

\* a mutant of equalNoCase: compares only the first Len(str2) characters
\* (strncasecmp-style prefix match)
equalNoCase_prefix(str1, str2) ==
  /\ Len(str1) >= Len(str2)
  /\ \A i \in 1..Len(str2) : ToLower(str1[i]) = ToLower(str2[i])

\* Pegasus::String::equalNoCase as called on line 34: sizes must agree, then
\* character by character; 7-bit characters are compared through tolower(),
\* all others exactly.
equalNoCase(str1, str2) ==
  /\ Len(str1) = Len(str2)
  /\ \A i \in 1..Len(str1) :
       IF str1[i] <= 127 /\ str2[i] <= 127
         THEN ToLower(str1[i]) = ToLower(str2[i])
         ELSE str1[i] = str2[i]

\* ------------------------------------------------------------------ inputs

UpperOf(s) == [i \in 1..Len(s) |-> IF IsLower(s[i]) THEN s[i] - 32 ELSE s[i]]
LowerOf(s) == [i \in 1..Len(s) |-> IF IsUpper(s[i]) THEN s[i] + 32 ELSE s[i]]
MixedOf(s) == [i \in 1..Len(s) |->
                 IF i % 2 = 1 THEN UpperOf(s)[i] ELSE LowerOf(s)[i]]

\* the names the host asks for
Names ==
  { Literal,                              \* "RedHatClusterProvider"
    LowerOf(Literal),                     \* "redhatclusterprovider"
    UpperOf(Literal),                     \* "REDHATCLUSTERPROVIDER"
    MixedOf(Literal),                     \* "ReDhAtClUsTeRpRoViDeR"
    << >>,                                \* ""
    SubSeq(Literal, 1, 6),                \* "RedHat"            (prefix)
    SubSeq(Literal, 7, 21),               \* "ClusterProvider"   (substring)
    Literal \o << 115 >>,                 \* "RedHatClusterProviders"
    << 32 >> \o Literal,                  \* " RedHatClusterProvider"
    LowerOf(Literal) \o << 32 >>,         \* "redhatclusterprovider "
    [Literal EXCEPT ![1] = 83],           \* "SedHatClusterProvider"
    [Literal EXCEPT ![2] = 233] }         \* "RédHatClusterProvider"

\* what the claims call "equal when letter case is ignored": same length and,
\* position by position, the same character or the two cases of one letter
SameLetter(c, d) ==
  \/ c = d
  \/ IsUpper(c) /\ d = c + 32
  \/ IsLower(c) /\ d = c - 32

CaseInsensitiveEqual(a, b) ==
  /\ Len(a) = Len(b)
  /\ \A i \in 1..Len(a) : SameLetter(a[i], b[i])

Matches(n) == CaseInsensitiveEqual(n, Literal)

\* ------------------------------------------------------------------- state

VARIABLES
  pc,            \* pc[t]: where thread t is in PegasusCreateProvider
  providerName,  \* providerName[t]: the argument of t's current call
  ptr,           \* ptr[t]: the value of the new-expression under evaluation
  allocs,        \* allocs[t]: storage obtained by t's current call
  result,        \* result[t]: how t's last call ended, as the host saw it
  lastName,      \* lastName[t]: the name the host passed in that call
  heap,          \* heap[a]: "free", "raw" or "live"
  owned,         \* the instances the host holds (returned, not yet deleted)
  nCalls,        \* calls made so far
  nMatched,      \* calls with a matching name that have returned
  destroyed      \* whether the host has deleted any instance

vars == << pc, providerName, ptr, allocs, result, lastName, heap, owned,
           nCalls, nMatched, destroyed >>

NoName == << 0 >>          \* no call in progress: no argument exists
NULL   == [kind |-> "value", value |-> 0]
Handle(a)  == [kind |-> "value", value |-> a]
Thrown     == [kind |-> "exception", value |-> 0]
NoResult   == [kind |-> "none", value |-> 0]

TypeOK ==
  /\ pc \in [Threads -> {"idle", "new", "ctor", "line39"}]
  /\ providerName \in [Threads -> Names \cup {NoName}]
  /\ ptr \in [Threads -> Addrs \cup {0}]
  /\ allocs \in [Threads -> 0..1]
  /\ result \in [Threads -> {NULL, Thrown, NoResult} \cup {Handle(a) : a \in Addrs}]
  /\ lastName \in [Threads -> Names \cup {NoName}]
  /\ heap \in [Addrs -> {"free", "raw", "live"}]
  /\ owned \subseteq Addrs
  /\ nCalls \in 0..MaxCalls
  /\ nMatched \in 0..MaxCalls
  /\ destroyed \in BOOLEAN

Init ==
  /\ pc = [t \in Threads |-> "idle"]
  /\ providerName = [t \in Threads |-> NoName]
  /\ ptr = [t \in Threads |-> 0]
  /\ allocs = [t \in Threads |-> 0]
  /\ result = [t \in Threads |-> NoResult]
  /\ lastName = [t \in Threads |-> NoName]
  /\ heap = [a \in Addrs |-> "free"]
  /\ owned = {}
  /\ nCalls = 0
  /\ nMatched = 0
  /\ destroyed = FALSE

\* ----------------------------------------------------------------- actions

\* the call of thread t ends: the parameter and the locals cease to exist,
\* and the host has the outcome r of the call it made with this name
EndCall(t, r) ==
  /\ result' = [result EXCEPT ![t] = r]
  /\ lastName' = [lastName EXCEPT ![t] = providerName[t]]
  /\ nMatched' = IF r.kind = "value" /\ Matches(providerName[t])
                   THEN nMatched + 1 ELSE nMatched
  /\ pc' = [pc EXCEPT ![t] = "idle"]
  /\ providerName' = [providerName EXCEPT ![t] = NoName]
  /\ ptr' = [ptr EXCEPT ![t] = 0]
  /\ allocs' = [allocs EXCEPT ![t] = 0]

\* a mutant of Call: a singleton guard, the name is only honoured while the
\* host holds no provider yet
Call_singleton(t, name) ==
  /\ pc[t] = "idle"
  /\ nCalls < MaxCalls
  /\ pc' = [pc EXCEPT ![t] = IF equalNoCase(name, Literal) /\ owned = {}
                               THEN "new" ELSE "line39"]
  /\ providerName' = [providerName EXCEPT ![t] = name]
  /\ result' = [result EXCEPT ![t] = NoResult]
  /\ lastName' = [lastName EXCEPT ![t] = NoName]
  /\ nCalls' = nCalls + 1
  /\ UNCHANGED << ptr, allocs, heap, owned, nMatched, destroyed >>

\* a mutant of Call: the provider is constructed first and the name is looked
\* at afterwards
Call_eager(t, name) ==
  /\ pc[t] = "idle"
  /\ nCalls < MaxCalls
  /\ \E a \in {b \in Addrs : heap[b] = "free"} :
       /\ heap' = [heap EXCEPT ![a] = "live"]
       /\ ptr' = [ptr EXCEPT ![t] = a]
  /\ allocs' = [allocs EXCEPT ![t] = 1]
  /\ pc' = [pc EXCEPT ![t] = IF equalNoCase(name, Literal)
                               THEN "ctor" ELSE "line39"]
  /\ providerName' = [providerName EXCEPT ![t] = name]
  /\ result' = [result EXCEPT ![t] = NoResult]
  /\ lastName' = [lastName EXCEPT ![t] = NoName]
  /\ nCalls' = nCalls + 1
  /\ UNCHANGED << owned, nMatched, destroyed >>

\* lines 32-34: the host broker calls the exported entry point with some name,
\* and  if (String::equalNoCase(providerName, "RedHatClusterProvider"))
\* selects line 36 or line 39
Call(t, name) ==
  /\ pc[t] = "idle"
  /\ nCalls < MaxCalls
  /\ pc' = [pc EXCEPT ![t] = IF equalNoCase(name, Literal)
                               THEN "new" ELSE "line39"]
  /\ providerName' = [providerName EXCEPT ![t] = name]
  /\ result' = [result EXCEPT ![t] = NoResult]
  /\ lastName' = [lastName EXCEPT ![t] = NoName]
  /\ nCalls' = nCalls + 1
  /\ UNCHANGED << ptr, allocs, heap, owned, nMatched, destroyed >>

\* a mutant of FreeStore: a provider cached in a static and handed out again
FreeStore_cached(h) == {a \in Addrs : h[a] = "free"} \cup owned

\* a mutant of FreeStore: an allocator that keeps no books at all
FreeStore_any(h) == Addrs

\* a mutant of FreeStore: an allocator without a lock, which does not see the
\* storage another thread has just taken
FreeStore_unsynchronised(h) == {a \in Addrs : h[a] # "live"}

\* the addresses operator new may return: storage not in use
FreeStore(h) == {a \in Addrs : h[a] = "free"}

\* line 36, operator new of the new-expression: storage is obtained ...
Allocate(t) ==
  /\ pc[t] = "new"
  /\ \E a \in FreeStore(heap) :
       /\ heap' = [heap EXCEPT ![a] = "raw"]
       /\ ptr' = [ptr EXCEPT ![t] = a]
  /\ allocs' = [allocs EXCEPT ![t] = 1]
  /\ pc' = [pc EXCEPT ![t] = "ctor"]
  /\ UNCHANGED << providerName, result, lastName, owned, nCalls, nMatched,
                  destroyed >>

\* a mutant of AllocateFails: catch (...) { return 0; }
AllocateFails_swallow(t) ==
  /\ pc[t] = "new"
  /\ EndCall(t, NULL)
  /\ UNCHANGED << heap, owned, nCalls, destroyed >>

\* ... or operator new throws std::bad_alloc (it must when no storage is left,
\* and the model lets it at any time); lines 32-40 hold no handler, so the
\* exception leaves the function and reaches the host
AllocateFails(t) ==
  /\ pc[t] = "new"
  /\ EndCall(t, Thrown)
  /\ UNCHANGED << heap, owned, nCalls, destroyed >>

\* a mutant of ReturnProvider: the storage is returned without the constructor
\* having run
ReturnProvider_noctor(t) ==
  /\ pc[t] = "ctor"
  /\ owned' = owned \cup {ptr[t]}
  /\ EndCall(t, Handle(ptr[t]))
  /\ UNCHANGED << heap, nCalls, destroyed >>

\* line 36: ClusterProvider::ClusterProvider() runs to completion and
\* return new ClusterMonitoring::ClusterProvider();  hands the pointer to the
\* host, which owns the instance from here on
ReturnProvider(t) ==
  /\ pc[t] = "ctor"
  /\ heap' = [heap EXCEPT ![ptr[t]] = "live"]
  /\ owned' = owned \cup {ptr[t]}
  /\ EndCall(t, Handle(ptr[t]))
  /\ UNCHANGED << nCalls, destroyed >>

\* a mutant of ConstructFails: the storage of the failed construction is not
\* released
ConstructFails_leak(t) ==
  /\ pc[t] = "ctor"
  /\ EndCall(t, Thrown)
  /\ UNCHANGED << heap, owned, nCalls, destroyed >>

\* line 36, the constructor throws: the new-expression releases the storage
\* and the exception leaves the function
ConstructFails(t) ==
  /\ pc[t] = "ctor"
  /\ heap' = [heap EXCEPT ![ptr[t]] = "free"]
  /\ EndCall(t, Thrown)
  /\ UNCHANGED << owned, nCalls, destroyed >>

\* line 39: return (0);
ReturnNull(t) ==
  /\ pc[t] = "line39"
  /\ EndCall(t, NULL)
  /\ UNCHANGED << heap, owned, nCalls, destroyed >>

\* The host broker deletes a provider it owns.
Destroy(a) ==
  /\ a \in owned
  /\ heap' = [heap EXCEPT ![a] = "free"]
  /\ owned' = owned \ {a}
  /\ destroyed' = TRUE
  /\ UNCHANGED << pc, providerName, ptr, allocs, result, lastName, nCalls,
                  nMatched >>

Next ==
  \/ \E t \in Threads, name \in Names : Call(t, name)
  \/ \E t \in Threads : Allocate(t)
  \/ \E t \in Threads : AllocateFails(t)
  \/ \E t \in Threads : ReturnProvider(t)
  \/ \E t \in Threads : ConstructFails(t)
  \/ \E t \in Threads : ReturnNull(t)
  \/ \E a \in Addrs : Destroy(a)

Spec == Init /\ [][Next]_vars

\* ------------------------------------------------------- derived notions

\* thread t takes a step inside PegasusCreateProvider: every statement of
\* the function moves the thread's position
FactoryStep(t) == pc[t] # "idle" /\ pc'[t] # pc[t]

\* the call of thread t ends in this step, by a return or by an exception
Ends(t) == pc[t] # "idle" /\ pc'[t] = "idle"

\* the call of thread t ends in this step by a return statement
Returns(t) == Ends(t) /\ result'[t].kind = "value"

\* in this step the construction of t's provider fails: operator new yields
\* no storage, or the constructor does not complete
ConstructionFails(t) ==
  \/ pc[t] = "new" /\ pc'[t] # "new" /\ ptr'[t] = 0
  \/ pc[t] = "ctor" /\ pc'[t] # "ctor" /\ heap'[ptr[t]] # "live"

LiveInstances == {a \in Addrs : heap[a] = "live"}

IsHandle(r) == r.kind = "value" /\ r.value \in Addrs

\* -------------------------------------------------------------- the claims

\* C1: a call whose name equals "RedHatClusterProvider" when letter case is
\* ignored returns a non-null pointer to a constructed instance, which is
\* the storage that very call allocated and not an instance the host already
\* held.
C1_MatchingNameReturnsNewInstance ==
  [][\A t \in Threads :
       (Returns(t) /\ Matches(providerName[t])) =>
           /\ IsHandle(result'[t])
           /\ result'[t].value = ptr[t]
           /\ allocs[t] = 1
           /\ heap[ptr[t]] = "raw" /\ heap'[ptr[t]] = "live"
           /\ ptr[t] \notin owned]_vars

\* a call with the literal in other letter case (all lower, all upper or
\* alternating) has been answered with an instance
C1_Witness ==
  \E t \in Threads :
    /\ lastName[t] \in {LowerOf(Literal), UpperOf(Literal), MixedOf(Literal)}
    /\ IsHandle(result[t])
    /\ result[t].value \in owned

\* C2: a call whose name is not case-insensitively equal to the literal (the
\* empty string, a prefix, a substring, a superstring, the literal with a
\* leading or trailing blank, a changed letter) ends by returning null: it
\* never enters the new-expression, returns no instance and does not throw.
C2_OtherNameReturnsNull ==
  [][\A t \in Threads :
       (Ends(t) /\ ~Matches(providerName[t])) =>
           /\ pc[t] = "line39"
           /\ result'[t] = NULL]_vars

\* a superstring and a whitespace variant have been answered with null
C2_Witness ==
  \E t, u \in Threads :
    /\ lastName[t] = Literal \o << 115 >>
    /\ result[t] = NULL
    /\ lastName[u] \in {<< 32 >> \o Literal, LowerOf(Literal) \o << 32 >>}
    /\ result[u] = NULL

C4_IndependentOwnership ==
  [][\A b \in owned :
       /\ heap[b] = "live"
       /\ \/ Destroy(b)
          \/ b \in owned' /\ heap'[b] = heap[b]]_vars

\* one returned instance has been deleted and the other is still live
C4_Witness ==
  \E t, u \in Threads : \E a, b \in Addrs :
    /\ a # b
    /\ result[t] = Handle(a) /\ result[u] = Handle(b)
    /\ destroyed
    /\ a \notin owned /\ heap[a] = "free"
    /\ b \in owned /\ heap[b] = "live"

\* C5: when a call returns, its outcome (null or an instance) is the outcome
\* every earlier returned call with the same name had, whatever happened in
\* between; in particular a name answered with null is answered with null
\* again.
C5_OutcomeDependsOnNameOnly ==
  [][\A t, u \in Threads :
       (Returns(t) /\ lastName[u] = providerName[t] /\ result[u].kind = "value") =>
           ((result'[t] = NULL) <=> (result[u] = NULL))]_vars

\* the same unmatched name was answered with null twice, after a matching
\* call had produced an instance
C5_Witness ==
  \E t, u \in Threads :
    /\ t # u
    /\ lastName[t] \in Names /\ ~Matches(lastName[t])
    /\ lastName[u] = lastName[t]
    /\ result[t] = NULL /\ result[u] = NULL
    /\ owned # {}

\* C6: with calls of several threads interleaved, each call is on the branch
\* its own name selects, and the storage a call has obtained belongs to no
\* other call and not to the host; a call that has obtained none refers to
\* none.
C6_CallsDoNotInterfere ==
  \A t \in Threads :
    /\ pc[t] \in {"new", "ctor"} => Matches(providerName[t])
    /\ pc[t] = "line39" => ~Matches(providerName[t])
    /\ pc[t] = "ctor" =>
         /\ ptr[t] \in Addrs
         /\ ptr[t] \notin owned
         /\ heap[ptr[t]] = "raw"
         /\ \A u \in Threads \ {t} : ptr[u] # ptr[t]
    /\ pc[t] # "ctor" => ptr[t] = 0 /\ allocs[t] = 0

\* two matching calls are in flight at once, each with its own storage, while
\* the host holds nothing yet
C6_Witness ==
  \E t, u \in Threads :
    /\ t # u
    /\ pc[t] = "ctor" /\ pc[u] = "ctor"
    /\ ptr[t] # ptr[u]

\* C7: when the construction of a matching call fails (operator new or the
\* constructor throws) the call ends in that step with the exception reaching
\* the host: it returns neither null nor the unfinished instance, the host
\* gains no instance, and there is no second attempt (a call never goes back
\* to operator new).
C7_ConstructionFailurePropagates ==
  [][\A t \in Threads :
       /\ ConstructionFails(t) =>
            /\ Matches(providerName[t])
            /\ pc'[t] = "idle"
            /\ result'[t] = Thrown
            /\ owned' = owned
       /\ pc[t] = "ctor" => pc'[t] \in {"ctor", "idle"}]_vars

\* a matching call has ended with an exception, nothing is left allocated
C7_Witness ==
  \E t \in Threads :
    /\ result[t] = Thrown
    /\ Matches(lastName[t])
    /\ \A a \in Addrs : heap[a] = "free"

\* C8: the steps of a call change nothing but the call's own locals and the
\* one heap cell of the instance it returns: a call with an unmatched name
\* leaves the heap and the host's instances as they are, a returning call
\* with a matching name has allocated exactly once and adds exactly its
\* instance, a call that throws leaves the heap without its storage, and the
\* name is never changed during the call and is gone from the factory when
\* the call ends.
C8_NoOtherSideEffect ==
  [][\A t \in Threads :
       FactoryStep(t) =>
           /\ providerName'[t] \in {providerName[t], NoName}
           /\ pc'[t] = "idle" <=> providerName'[t] = NoName
           /\ ~Matches(providerName[t]) =>
                /\ heap' = heap /\ owned' = owned
                /\ allocs[t] = 0
           /\ (Returns(t) /\ Matches(providerName[t])) =>
                /\ allocs[t] = 1
                /\ ptr[t] \notin owned
                /\ owned' = owned \cup {ptr[t]}
                /\ LiveInstances' = LiveInstances \cup {ptr[t]}
           /\ (Ends(t) /\ result'[t] = Thrown) =>
                /\ owned' = owned
                /\ \A a \in Addrs :
                     heap'[a] = (IF a = ptr[t] THEN "free" ELSE heap[a])
           /\ \A a \in Addrs : heap'[a] # heap[a] => a \in {ptr[t], ptr'[t]}
           /\ \A u \in Threads \ {t} :
                providerName'[u] = providerName[u] /\ ptr'[u] = ptr[u]]_vars

\* an unmatched call has returned while the instance of a matching call was
\* the only thing on the heap
C8_Witness ==
  \E t, u \in Threads : \E a \in Addrs :
    /\ result[t] = NULL /\ ~Matches(lastName[t])
    /\ result[u] = Handle(a)
    /\ owned = {a}
    /\ LiveInstances = {a}
    /\ providerName[t] = NoName /\ providerName[u] = NoName

\* C9: a call that returns hands the host either null or a handle to a
\* constructed instance that the host owns from then on, and it is a handle
\* exactly when the name equals the literal with letter case ignored.
C9_TwoOutcomes ==
  [][\A t \in Threads :
       Returns(t) =>
           /\ result'[t] = NULL \/ IsHandle(result'[t])
           /\ IsHandle(result'[t]) <=> Matches(providerName[t])
           /\ IsHandle(result'[t]) =>
                /\ heap'[result'[t].value] = "live"
                /\ result'[t].value \in owned'
                /\ result'[t].value \notin owned]_vars

\* both outcomes have occurred
C9_Witness ==
  \E t, u \in Threads :
    /\ result[t] = NULL /\ lastName[t] = << >>
    /\ IsHandle(result[u]) /\ lastName[u] = Literal

====
